---- MODULE Spec2Model ----
(***************************************************************************)
(* Mini-Torero-Server: one accept thread (acceptConnections) feeding a     *)
(* BoundedBuffer of client sockets that NUM_THREADS detached worker        *)
(* threads (consume) drain, each running handleClient on what it takes.    *)
(***************************************************************************)
EXTENDS Integers, Sequences, FiniteSets, TLC

(* ---------------------------------------------------------------------- *)
(* Bounds.  The program runs with NUM_THREADS = 8 and CAPACITY = 10        *)
(* (torero-serve.cpp:54-55); the model keeps the names and shrinks them.   *)
(* ---------------------------------------------------------------------- *)
NUM_THREADS == 2        \* worker threads started by acceptConnections
CAPACITY == 2           \* largest max_size handed to BoundedBuffer(max_size)
MaxConns == 4           \* connections the clients open in one run

Main == 0                              \* the thread running acceptConnections
Workers == 1..NUM_THREADS              \* the threads running consume
Threads == {Main} \cup Workers
Unlocked == 0 - 1                      \* std::mutex m held by nobody
Socks == 1..MaxConns                   \* descriptors returned by accept

VARIABLES
    proc,             \* "running", "exited" (exit(1)) or "aborted" (std::terminate)
    apc,              \* position of the accept thread
    spawned,          \* loop index i of the thread-creating loop
    sock,             \* acceptConnections' local sock (0 outside its scope)
    accepted,         \* how many connections accept has returned
    pc,               \* position of each worker thread
    shared_socket,    \* consume's local shared_socket, per worker (0 outside its scope)
    m,                \* BoundedBuffer::m, its owner or Unlocked
    capacity, count, head, tail, buffer,      \* BoundedBuffer fields
    data_available,   \* threads blocked in data_available.wait
    space_available,  \* threads blocked in space_available.wait
    root,             \* main's root: the directory served, argv[2]
    putLog,           \* history: handles in the order putItem inserted them
    takeLog,          \* history: handles in the order getItem returned them
    io,               \* history: per descriptor, the recv, send and close calls
    handled           \* history: descriptors whose handleClient call returned

vars == <<proc, apc, spawned, sock, accepted, pc, shared_socket, m, capacity,
          count, head, tail, buffer, data_available, space_available,
          root, putLog, takeLog, io, handled>>

bufVars == <<capacity, count, head, tail, buffer>>
condVars == <<data_available, space_available>>
mainVars == <<apc, spawned, sock, accepted>>
queueLogs == <<putLog, takeLog>>
clientVars == <<root, io, handled>>


(* ---------------------------------------------------------------------- *)
(* BoundedBuffer (BoundedBuffer.cpp)                                       *)
(* ---------------------------------------------------------------------- *)
NoThread == 0 - 1

\* mutant: the producer waits only once the queue is over its capacity
putItemWaitsWhenOver(woken, cnt, cap) == cnt > cap

\* mutant: the producer never waits for space
putItemNeverWaits(woken, cnt, cap) == FALSE

\* while(count == capacity): evaluated on entry and again after every wake-up
putItemWaits(woken, cnt, cap) == cnt = cap

\* mutant: the consumer waits only once the count is below zero
getItemWaitsWhenNegative(woken, cnt) == cnt < 0

\* mutant: if(count == 0) in place of while: no second test after a wake-up
getItemWaitsOnce(woken, cnt) == ~woken /\ cnt = 0

\* while(count == 0): evaluated on entry and again after every wake-up
getItemWaits(woken, cnt) == cnt = 0

\* mutant: the index wraps one step late, if(head > capacity)
WrapLate(i, cap) == IF i + 1 > cap THEN 0 ELSE i + 1

\* head += 1; if(head == capacity) head = 0;   (the same code moves tail)
Wrap(i, cap) == IF i + 1 = cap THEN 0 ELSE i + 1

\* mutant: the newest element in place of the oldest
back(q) == IF q = <<>> THEN Socks ELSE {q[Len(q)]}

\* buffer.front(): the oldest element; undefined on an empty std::queue, where
\* any descriptor may come back
front(q) == IF q = <<>> THEN Socks ELSE {q[1]}

\* mutant: the element stays in the queue
popNothing(q) == q

\* buffer.pop(): drops the oldest element
pop(q) == IF q = <<>> THEN <<>> ELSE Tail(q)

\* buffer.push(new_item): appends at the back
push(q, new_item) == Append(q, new_item)

\* mutant: the notification reaches nobody
notify_nobody(waiters) == {NoThread}

\* notify_one(): one of the threads blocked on the condition variable, or
\* nobody when none is blocked
notify_one(waiters) == IF waiters = {} THEN {NoThread} ELSE waiters

\* position of a worker released from data_available.wait
Woken(p, t) == IF t \in Workers THEN [p EXCEPT ![t] = "g_wake"] ELSE p

(* ---------------------------------------------------------------------- *)
(* Text.  A std::string is the sequence of its bytes, one character each.  *)
(* ---------------------------------------------------------------------- *)
DigitChars == <<"0", "1", "2", "3", "4", "5", "6", "7", "8", "9">>
LowerChars == <<"a", "b", "c", "d", "e", "f", "g", "h", "i", "j", "k", "l",
       "m", "n", "o", "p", "q", "r", "s", "t", "u", "v", "w", "x", "y", "z">>
UpperChars == <<"A", "B", "C", "D", "E", "F", "G", "H", "I", "J", "K", "L",
       "M", "N", "O", "P", "Q", "R", "S", "T", "U", "V", "W", "X", "Y", "Z">>
Range(s) == {s[i] : i \in 1..Len(s)}
Min(S) == CHOOSE x \in S : \A y \in S : x <= y

IsDigit(c) == c \in Range(DigitChars)                         \* \d
IsWord(c) == c \in Range(LowerChars) \cup Range(UpperChars)
                   \cup Range(DigitChars) \cup {"_"}          \* \w
IsSpace(c) == c \in {" ", "\t", "\n", "\r", "\f"}              \* \s
IsPathChar(c) == IsWord(c) \/ c \in {"-", ".", "/"}           \* [\w\-\./]

CRLF == <<"\r", "\n">>

\* std::to_string of a size: its decimal digits
RECURSIVE to_string(_)
to_string(n) ==
    IF n < 10 THEN <<DigitChars[n + 1]>>
    ELSE to_string(n \div 10) \o <<DigitChars[(n % 10) + 1]>>

(* ---------------------------------------------------------------------- *)
(* validGET (torero-serve.cpp:342-353)                                     *)
(* ---------------------------------------------------------------------- *)
\* the regular expression GET\s[\w\-\./]*\sHTTP/\d\.\d matched from byte i
MatchesAt(request, i) ==
    /\ i + 3 <= Len(request)
    /\ SubSeq(request, i, i + 2) = <<"G", "E", "T">>
    /\ IsSpace(request[i + 3])
    /\ \E j \in (i + 4)..Len(request) :
          /\ \A k \in (i + 4)..(j - 1) : IsPathChar(request[k])
          /\ IsSpace(request[j])
          /\ j + 8 <= Len(request)
          /\ SubSeq(request, j + 1, j + 5) = <<"H", "T", "T", "P", "/">>
          /\ IsDigit(request[j + 6])
          /\ request[j + 7] = "."
          /\ IsDigit(request[j + 8])

\* mutant: any request that names a protocol version passes
validGETAnyMethod(request) == \E i \in 1..Len(request) :
    /\ i + 4 <= Len(request)
    /\ SubSeq(request, i, i + 4) = <<"H", "T", "T", "P", "/">>

\* std::regex_search: the expression matches somewhere in the request
validGET(request) == \E i \in 1..Len(request) : MatchesAt(request, i)

(* ---------------------------------------------------------------------- *)
(* handleClient's tokenizer (torero-serve.cpp:165-168)                     *)
(* ---------------------------------------------------------------------- *)
\* std::getline(f, str, ' ') on the stream f over s, read up to f.pos: a
\* stream that is no longer good leaves str alone; otherwise str becomes the
\* bytes up to the next ' ' (which is consumed) or up to the end of s, and
\* reaching the end sets eofbit
getline(s, f, str) ==
    IF ~f.good THEN [str |-> str, pos |-> f.pos, good |-> FALSE]
    ELSE LET spaces == {k \in f.pos..Len(s) : s[k] = " "}
         IN  IF spaces = {}
             THEN [str |-> SubSeq(s, f.pos, Len(s)), pos |-> Len(s) + 1,
                   good |-> FALSE]
             ELSE [str |-> SubSeq(s, f.pos, Min(spaces) - 1),
                   pos |-> Min(spaces) + 1, good |-> TRUE]

\* std::istringstream f(request_string); getline(f, filename, ' ') twice
Tokenize(request_string) ==
    LET first == getline(request_string, [pos |-> 1, good |-> TRUE], <<>>)
    IN  getline(request_string, first, first.str).str

(* ---------------------------------------------------------------------- *)
(* The file system the server reads (std::filesystem, std::ifstream): the  *)
(* process runs in a directory that holds the tree below.  A node is the   *)
(* sequence of names leading to it.                                        *)
(*     www/a.txt  www/README  www/sub/b.css  www/sub/d/                    *)
(*     www/web/index.html  www/web/c.txt                                   *)
(* ---------------------------------------------------------------------- *)
www == <<"w", "w", "w">>
a_txt == <<"a", ".", "t", "x", "t">>
README == <<"R", "E", "A", "D", "M", "E">>
sub == <<"s", "u", "b">>
b_css == <<"b", ".", "c", "s", "s">>
d_dir == <<"d">>
web == <<"w", "e", "b">>
index_html == <<"i", "n", "d", "e", "x", ".", "h", "t", "m", "l">>
c_txt == <<"c", ".", "t", "x", "t">>

Directories ==
    {<<>>, <<www>>, <<www, sub>>, <<www, sub, d_dir>>, <<www, web>>}
RegularFiles ==
    {<<www, a_txt>>, <<www, README>>, <<www, sub, b_css>>,
     <<www, web, index_html>>, <<www, web, c_txt>>}
Contents(node) ==
    CASE node = <<www, a_txt>> -> <<"h", "i", "!">>
      [] node = <<www, README>> -> <<"o", "k">>
      [] node = <<www, sub, b_css>> -> <<"p", "{", "}">>
      [] node = <<www, web, index_html>> -> <<"<", "p", ">">>
      [] node = <<www, web, c_txt>> -> <<"c">>
      [] OTHER -> <<>>
NoNode == <<<<>>>>                      \* what a path that names nothing resolves to

\* the names separated by '/' in a path
RECURSIVE Components(_)
Components(path) ==
    LET slashes == {k \in 1..Len(path) : path[k] = "/"}
    IN  IF slashes = {} THEN <<path>>
        ELSE <<SubSeq(path, 1, Min(slashes) - 1)>>
             \o Components(SubSeq(path, Min(slashes) + 1, Len(path)))

\* path lookup by the operating system: every name but the last must lead to
\* a directory; an empty name and "." stay, ".." goes up (and stays at the top)
RECURSIVE Walk(_, _)
Walk(node, names) ==
    IF names = <<>> THEN node
    ELSE IF node \notin Directories THEN NoNode
    ELSE IF Head(names) \in {<<>>, <<".">>} THEN Walk(node, Tail(names))
    ELSE IF Head(names) = <<".", ".">>
         THEN Walk(SubSeq(node, 1, Len(node) - 1), Tail(names))
    ELSE IF Append(node, Head(names)) \in Directories \cup RegularFiles
         THEN Walk(Append(node, Head(names)), Tail(names))
    ELSE NoNode

Lookup(path) == IF path = <<>> THEN NoNode ELSE Walk(<<>>, Components(path))

\* fs::is_directory, fs::is_regular_file, fs::file_size
is_directory(path) == Lookup(path) \in Directories
is_regular_file(path) == Lookup(path) \in RegularFiles
file_size(path) == Len(Contents(Lookup(path)))

\* the names fs::directory_iterator yields, in each order it may yield them
Entries(node) ==
    {n[Len(n)] : n \in {e \in Directories \cup RegularFiles :
                          /\ Len(e) = Len(node) + 1
                          /\ SubSeq(e, 1, Len(node)) = node}}
Orders(S) ==
    {o \in [1..Cardinality(S) -> S] : \A i, j \in 1..Cardinality(S) :
                                          o[i] = o[j] => i = j}
directory_iterator(path) == Orders(Entries(Lookup(path)))

\* item.path(): the directory's path, a separator unless it ends in one, and
\* the entry's name
ItemPath(path, name) ==
    IF path[Len(path)] = "/" THEN path \o name ELSE path \o <<"/">> \o name

(* ---------------------------------------------------------------------- *)
(* isDirectory, fileExists (torero-serve.cpp:361-374)                      *)
(* ---------------------------------------------------------------------- *)
isDirectory(filename) == is_directory(filename)

\* mutant: the stream is reported good whatever the path names
fileExistsAlways(filename) == TRUE

\* std::ifstream f(filename); f.good(): the open succeeds on a regular file
\* and, read-only, on a directory
fileExists(filename) == Lookup(filename) \in RegularFiles \cup Directories

(* ---------------------------------------------------------------------- *)
(* The responses.  Each operator gives the sequence of sendData calls the  *)
(* function makes, as the bytes handed to each call.                       *)
(* ---------------------------------------------------------------------- *)
sendBad == <<<<"H", "T", "T", "P", "/", "1", ".", "0", " ", "4", "0", "0",
       " ", "B", "A", "D", " ", "R", "E", "Q", "U", "E", "S", "T", "\r",
       "\n">>>>
sendNotFound == <<<<"H", "T", "T", "P", "/", "1", ".", "0", " ", "4", "0",
       "4", " ", "N", "O", "T", " ", "F", "O", "U", "N", "D", "\r", "\n">>>>
sendOK == <<<<"H", "T", "T", "P", "/", "1", ".", "0", " ", "2", "0", "0",
       " ", "O", "K", "\r", "\n">>>>

\* the page sendError builds in stream
error_page ==
    <<"<", "h", "t", "m", "l", ">">> \o CRLF \o <<"<", "h", "e", "a", "d",
       ">">> \o CRLF
    \o <<"<", "t", "i", "t", "l", "e", ">", " ", "P", "a", "g", "e", " ",
       "n", "o", "t", " ", "f", "o", "u", "n", "d", "!", " ", "<", "/", "t",
       "i", "t", "l", "e", ">">> \o CRLF
    \o <<"<", "/", "h", "e", "a", "d", ">">> \o CRLF
    \o <<"<", "b", "o", "d", "y", ">", " ", "4", "0", "4", " ", "P", "a",
       "g", "e", " ", "N", "o", "t", " ", "F", "o", "u", "n", "d", "!", " ",
       "<", "/", "b", "o", "d", "y", ">">> \o CRLF
    \o <<"<", "/", "h", "t", "m", "l", ">">> \o CRLF

\* mutant: the terminator is counted in Content-Length
HtmlResponseCountsTerminator(page) ==
    <<"C", "o", "n", "t", "e", "n", "t", "-", "T", "y", "p", "e", ":",
          " ">> \o <<"t", "e", "x", "t", "/", "h", "t", "m", "l">> \o CRLF
    \o <<"C", "o", "n", "t", "e", "n", "t", "-", "L", "e", "n", "g", "t",
          "h", ":", " ">> \o to_string(Len(page) + 2) \o CRLF
    \o CRLF \o page \o CRLF

\* resp << "Content-Type: " << "text/html" << ... << page << "\r\n"
HtmlResponse(page) ==
    <<"C", "o", "n", "t", "e", "n", "t", "-", "T", "y", "p", "e", ":",
       " ">> \o <<"t", "e", "x", "t", "/", "h", "t", "m", "l">> \o CRLF
    \o <<"C", "o", "n", "t", "e", "n", "t", "-", "L", "e", "n", "g", "t",
       "h", ":", " ">> \o to_string(Len(page)) \o CRLF
    \o CRLF \o page \o CRLF

sendError == <<HtmlResponse(error_page)>>

\* match[0] of std::regex_search(filename, match, "(\.\w*)"): the first '.'
\* of the string and the word characters that follow it; <<>> without a '.'
Extension(filename) ==
    LET dots == {i \in 1..Len(filename) : filename[i] = "."}
        i == Min(dots)
        stops == {k \in (i + 1)..Len(filename) : ~IsWord(filename[k])}
    IN  IF dots = {} THEN <<>>
        ELSE IF stops = {} THEN SubSeq(filename, i, Len(filename))
        ELSE SubSeq(filename, i, Min(stops) - 1)

\* the chain of comparisons of match[0] in sendHeader
ContentType(ext) ==
    CASE ext = <<".", "h", "t", "m", "l">> -> <<"t", "e", "x", "t", "/", "h",
       "t", "m", "l">>
      [] ext = <<".", "c", "s", "s">> -> <<"t", "e", "x", "t", "/", "c", "s",
       "s">>
      [] ext = <<".", "j", "p", "g">> -> <<"i", "m", "a", "g", "e", "/", "j",
       "p", "e", "g">>
      [] ext = <<".", "g", "i", "f">> -> <<"i", "m", "a", "g", "e", "/", "g",
       "i", "f">>
      [] ext = <<".", "p", "n", "g">> -> <<"i", "m", "a", "g", "e", "/", "p",
       "n", "g">>
      [] ext = <<".", "p", "d", "f">> -> <<"a", "p", "p", "l", "i", "c", "a",
       "t", "i", "o", "n", "/", "p", "d", "f">>
      [] OTHER -> <<"t", "e", "x", "t", "/", "p", "l", "a", "i", "n">>

\* sendHeader: without a match it prints "No Matches!" and returns, having
\* sent nothing
sendHeader(filename) ==
    IF Extension(filename) = <<>> THEN <<>>
    ELSE <<<<"C", "o", "n", "t", "e", "n", "t", "-", "T", "y", "p", "e", ":",
       " ">> \o ContentType(Extension(filename)) \o CRLF
           \o <<"C", "o", "n", "t", "e", "n", "t", "-", "L", "e", "n", "g",
       "t", "h", ":", " ">> \o to_string(file_size(filename)) \o CRLF
           \o CRLF>>

\* sendFile's loop: file.read(data, buff_size) until it hits the end of file
buff_size == 4096
RECURSIVE ReadLoop(_)
ReadLoop(bytes) ==
    IF Len(bytes) < buff_size THEN <<bytes>>
    ELSE <<SubSeq(bytes, 1, buff_size)>>
         \o ReadLoop(SubSeq(bytes, buff_size + 1, Len(bytes)))

TRANSACTION_CLOSE == 2
sendFile(filename) ==
    ReadLoop(Contents(Lookup(filename)))
    \o <<SubSeq(CRLF, 1, TRANSACTION_CLOSE)>>

\* mutant: index.html is served only when the directory yields it first;
\* later it is skipped like an entry that is neither file nor directory
RECURSIVE ListEntriesIndexFirst(_, _, _, _)
ListEntriesIndexFirst(filename, order, i, stream) ==
    IF i > Len(order)
    THEN <<HtmlResponse(stream \o <<"<", "/", "u", "l", ">">> \o CRLF)>>
    ELSE IF order[i] = index_html /\ i = 1
    THEN sendHeader(ItemPath(filename, order[i]))
         \o sendFile(ItemPath(filename, order[i]))
    ELSE ListEntriesIndexFirst(filename, order, i + 1, stream)

\* sendHTML's loop over the directory, from entry i on, with the page so far
RECURSIVE ListEntries(_, _, _, _)
ListEntries(filename, order, i, stream) ==
    IF i > Len(order)
    THEN <<HtmlResponse(stream \o <<"<", "/", "u", "l",
       ">">> \o CRLF \o <<"<", "/", "b", "o", "d", "y", ">">> \o CRLF
                        \o <<"<", "/", "h", "t", "m", "l", ">">> \o CRLF)>>
    ELSE IF order[i] = index_html
    THEN sendHeader(ItemPath(filename, order[i]))
         \o sendFile(ItemPath(filename, order[i]))
    ELSE IF is_regular_file(filename \o order[i])
    THEN ListEntries(filename, order, i + 1,
             stream \o <<"\t", "<", "l", "i", ">", "<", "a", " ", "h", "r",
       "e", "f", "=", "\"">> \o order[i] \o <<"\"", ">">>
                    \o order[i] \o <<"<", "/", "a", ">", "<", "/", "l", "i",
       ">", "\r", "\n">>)
    ELSE IF is_directory(filename \o order[i])
    THEN ListEntries(filename, order, i + 1,
             stream \o <<"\t", "<", "l", "i", ">", "<", "a", " ", "h", "r",
       "e", "f", "=", "\"">> \o order[i] \o <<"/", "\"", ">">>
                    \o order[i] \o <<"/", "<", "/", "a", ">", "<", "/", "l",
       "i", ">", "\r", "\n">>)
    ELSE ListEntries(filename, order, i + 1, stream)

\* sendHTML, with the order in which the directory yields its entries
sendHTML(filename, order) ==
    IF ~isDirectory(filename) /\ fileExists(filename)
    THEN <<HtmlResponse(error_page)>>
    ELSE ListEntries(filename, order, 1,
             <<"<", "h", "t", "m", "l", ">">> \o CRLF
             \o <<"<", "h", "e", "a", "d", ">">> \o <<"<", "t", "i", "t",
       "l", "e", ">", "<", "/", "t", "i", "t", "l", "e", ">">> \o <<"<", "/",
       "h", "e", "a", "d", ">">> \o CRLF
             \o <<"<", "b", "o", "d", "y", ">">> \o CRLF \o <<"<", "u", "l",
       ">">> \o CRLF)

\* sendData with data_length 0 never calls send: the calls that reach the
\* socket
Sends(calls) == SelectSeq(calls, LAMBDA data : data # <<>>)

(* ---------------------------------------------------------------------- *)
(* What the clients send and where the server is rooted                    *)
(* ---------------------------------------------------------------------- *)
Requests ==
    {<<"P", "O", "S", "T", " ", "/", " ", "H", "T", "T", "P", "/", "1", ".",
       "0">>,
     <<"G", "E", "T", " ", "/", "a", ".", "t", "x", "t", " ", "H", "T", "T",
       "P", "/", "1", ".", "0">>,
     <<"G", "E", "T", " ", "/", "R", "E", "A", "D", "M", "E", " ", "H", "T",
       "T", "P", "/", "1", ".", "0">>}
Roots == {www}


(* ---------------------------------------------------------------------- *)
(* State after construction: main has created the listening socket and     *)
(* acceptConnections has constructed the buffer; no thread exists yet.     *)
(* ---------------------------------------------------------------------- *)
Init ==
    /\ proc = "running"
    /\ apc = "spawn"
    /\ spawned = 0
    /\ sock = 0
    /\ accepted = 0
    /\ pc = [w \in Workers |-> "unborn"]
    /\ shared_socket = [w \in Workers |-> 0]
    /\ m = Unlocked
    /\ capacity \in 1..CAPACITY
    /\ count = 0
    /\ head = 0
    /\ tail = 0
    /\ buffer = <<>>
    /\ data_available = {}
    /\ space_available = {}
    /\ root \in Roots
    /\ putLog = <<>>
    /\ takeLog = <<>>
    /\ io = [c \in Socks |-> <<>>]
    /\ handled = {}

(* ---------------------------------------------------------------------- *)
(* The end of the process, by exit(1) or by std::terminate: every thread   *)
(* is gone, so nobody holds the mutex or waits on a condition variable;    *)
(* the thread in which it happened is left at position last.  The rest of  *)
(* the state is left as it was.                                            *)
(* ---------------------------------------------------------------------- *)
ProcessEnds(how, thread, last) ==
    /\ proc' = how
    /\ apc' = IF thread = Main THEN last ELSE "gone"
    /\ pc' = [w \in Workers |-> IF w = thread THEN last ELSE "gone"]
    /\ m' = Unlocked
    /\ data_available' = {}
    /\ space_available' = {}

(* ---------------------------------------------------------------------- *)
(* acceptConnections (torero-serve.cpp:278-317)                            *)
(* ---------------------------------------------------------------------- *)
\* for(i < NUM_THREADS) { std::thread cons(consume, ...); cons.detach(); }
Spawn ==
    /\ proc = "running"
    /\ apc = "spawn"
    /\ spawned < NUM_THREADS
    /\ pc' = [pc EXCEPT ![spawned + 1] = "getItem"]
    /\ spawned' = spawned + 1
    /\ apc' = IF spawned + 1 < NUM_THREADS THEN "spawn" ELSE "accept"
    /\ UNCHANGED <<proc, sock, accepted, shared_socket, m, bufVars, condVars,
                   putLog, takeLog, clientVars>>

\* sock = accept(...) returns the descriptor of a new connection
Accept ==
    /\ proc = "running"
    /\ apc = "accept"
    /\ accepted < MaxConns
    /\ accepted' = accepted + 1
    /\ sock' = accepted + 1
    /\ apc' = "putItem"
    /\ UNCHANGED <<proc, spawned, pc, shared_socket, m, bufVars, condVars,
                   putLog, takeLog, clientVars>>

\* sock < 0: perror, exit(1)
AcceptFails ==
    /\ proc = "running"
    /\ apc = "accept"
    /\ ProcessEnds("exited", Main, "exit")
    /\ UNCHANGED <<spawned, sock, accepted, shared_socket, bufVars, queueLogs,
                   clientVars>>

\* putItem: std::unique_lock<std::mutex> cv_lock(m)
PutLock ==
    /\ proc = "running"
    /\ apc = "putItem"
    /\ m = Unlocked
    /\ m' = Main
    /\ apc' = "p_test"
    /\ UNCHANGED <<proc, spawned, sock, accepted, pc, shared_socket, bufVars,
                   condVars, putLog, takeLog, clientVars>>

\* putItem: space_available.wait(cv_lock) releases m and blocks
PutWait ==
    /\ proc = "running"
    /\ apc \in {"p_test", "p_retest"}
    /\ m = Main
    /\ putItemWaits(apc = "p_retest", count, capacity)
    /\ space_available' = space_available \cup {Main}
    /\ m' = Unlocked
    /\ apc' = "p_wait"
    /\ UNCHANGED <<proc, spawned, sock, accepted, pc, shared_socket, bufVars,
                   data_available, putLog, takeLog, clientVars>>

\* putItem: wait re-acquires m before it returns to the loop test
PutRelock ==
    /\ proc = "running"
    /\ apc = "p_wake"
    /\ m = Unlocked
    /\ m' = Main
    /\ apc' = "p_retest"
    /\ UNCHANGED <<proc, spawned, sock, accepted, pc, shared_socket, bufVars,
                   condVars, putLog, takeLog, clientVars>>

\* putItem: count += 1; push; head; data_available.notify_one(); unlock
PutInsert ==
    /\ proc = "running"
    /\ apc \in {"p_test", "p_retest"}
    /\ m = Main
    /\ ~putItemWaits(apc = "p_retest", count, capacity)
    /\ count' = count + 1
    /\ buffer' = push(buffer, sock)
    /\ head' = Wrap(head, capacity)
    /\ \E t \in notify_one(data_available) :
          /\ data_available' = data_available \ {t}
          /\ pc' = Woken(pc, t)
    /\ m' = Unlocked
    /\ apc' = "accept"
    /\ sock' = 0
    /\ putLog' = Append(putLog, sock)
    /\ UNCHANGED <<proc, spawned, accepted, shared_socket, capacity,
                   tail, space_available, takeLog, clientVars>>

\* a spurious wake-up of the accept thread out of space_available.wait
PutSpurious ==
    /\ proc = "running"
    /\ apc = "p_wait"
    /\ Main \in space_available
    /\ space_available' = space_available \ {Main}
    /\ apc' = "p_wake"
    /\ UNCHANGED <<proc, spawned, sock, accepted, pc, shared_socket, m,
                   bufVars, data_available, putLog, takeLog, clientVars>>

(* ---------------------------------------------------------------------- *)
(* consume (torero-serve.cpp:329-334) and getItem                          *)
(* ---------------------------------------------------------------------- *)
\* getItem: std::unique_lock<std::mutex> cv_lock(m)
GetLock(w) ==
    /\ proc = "running"
    /\ pc[w] = "getItem"
    /\ m = Unlocked
    /\ m' = w
    /\ pc' = [pc EXCEPT ![w] = "g_test"]
    /\ UNCHANGED <<proc, mainVars, shared_socket, bufVars, condVars, putLog,
                   takeLog, clientVars>>

\* getItem: data_available.wait(cv_lock) releases m and blocks
GetWait(w) ==
    /\ proc = "running"
    /\ pc[w] \in {"g_test", "g_retest"}
    /\ m = w
    /\ getItemWaits(pc[w] = "g_retest", count)
    /\ data_available' = data_available \cup {w}
    /\ m' = Unlocked
    /\ pc' = [pc EXCEPT ![w] = "g_wait"]
    /\ UNCHANGED <<proc, mainVars, shared_socket, bufVars, space_available,
                   putLog, takeLog, clientVars>>

\* getItem: wait re-acquires m before it returns to the loop test
GetRelock(w) ==
    /\ proc = "running"
    /\ pc[w] = "g_wake"
    /\ m = Unlocked
    /\ m' = w
    /\ pc' = [pc EXCEPT ![w] = "g_retest"]
    /\ UNCHANGED <<proc, mainVars, shared_socket, bufVars, condVars, putLog,
                   takeLog, clientVars>>

\* getItem: count -= 1; front; pop; tail; space_available.notify_one();
\* unlock; return item -- consume stores it in shared_socket
GetRemove(w) ==
    /\ proc = "running"
    /\ pc[w] \in {"g_test", "g_retest"}
    /\ m = w
    /\ ~getItemWaits(pc[w] = "g_retest", count)
    /\ count' = count - 1
    /\ \E item \in front(buffer) :
          /\ shared_socket' = [shared_socket EXCEPT ![w] = item]
          /\ takeLog' = Append(takeLog, item)
    /\ buffer' = pop(buffer)
    /\ tail' = Wrap(tail, capacity)
    /\ \E t \in notify_one(space_available) :
          /\ space_available' = space_available \ {t}
          /\ apc' = IF t = Main THEN "p_wake" ELSE apc
    /\ m' = Unlocked
    /\ pc' = [pc EXCEPT ![w] = "handleClient"]
    /\ UNCHANGED <<proc, spawned, sock, accepted, capacity, head,
                   data_available, putLog, clientVars>>

\* a spurious wake-up of a worker out of data_available.wait
GetSpurious(w) ==
    /\ proc = "running"
    /\ pc[w] = "g_wait"
    /\ w \in data_available
    /\ data_available' = data_available \ {w}
    /\ pc' = [pc EXCEPT ![w] = "g_wake"]
    /\ UNCHANGED <<proc, mainVars, shared_socket, m, bufVars, space_available,
                   putLog, takeLog, clientVars>>

(* ---------------------------------------------------------------------- *)
(* handleClient (torero-serve.cpp:152-191)                                 *)
(* ---------------------------------------------------------------------- *)
\* the socket calls that a list of sendData calls adds to a connection's log
Sent(calls) == [i \in 1..Len(Sends(calls)) |-> <<"send", Sends(calls)[i]>>]

\* close(client_sock)
close == <<<<"close", <<>>>>>>

\* the orders in which sendHTML may meet the entries of filename
Iterations(filename) ==
    IF is_directory(filename) THEN directory_iterator(filename) ELSE {<<>>}

\* mutant: the connection is closed before the response is sent
handleClientClosesFirst(request_string, server_root, order) ==
    <<<<"recv", request_string>>>> \o close \o Sent(sendOK)

\* the socket calls of one handleClient call that no exception cuts short:
\* request_string is what receiveData returns, server_root the root it is
\* handed, order the order in which the directory (if any) yields its entries
handleClient(request_string, server_root, order) ==
    LET filename == server_root \o Tokenize(request_string)
    IN  <<<<"recv", request_string>>>>
        \o IF ~validGET(request_string) THEN Sent(sendBad)
           ELSE IF ~fileExists(filename) /\ ~isDirectory(filename)
           THEN Sent(sendNotFound) \o Sent(sendError)
           ELSE Sent(sendOK)
                \o (IF isDirectory(filename)
                    THEN Sent(sendHTML(filename, order))
                    ELSE IF fileExists(filename)
                    THEN Sent(sendHeader(filename)) \o Sent(sendFile(filename))
                    ELSE <<>>)
                \o close

\* every way one handleClient call may run to its return
Runs(server_root) ==
    UNION {{handleClient(r, server_root, o) :
               o \in Iterations(server_root \o Tokenize(r))} : r \in Requests}

\* the same, and every way a call may be cut short by an exception: the calls
\* made before the recv or send that returns -1, and that one ("fail")
AllRuns == [server_root \in Roots |-> Runs(server_root)]
AllThrows ==
    [server_root \in Roots |->
        UNION {{Append(SubSeq(calls, 1, n - 1), <<"fail", <<>>>>) :
                   n \in {k \in 1..Len(calls) :
                             calls[k][1] \in {"recv", "send"}}} :
               calls \in Runs(server_root)}]

\* consume: handleClient(shared_socket, root) returns and the loop calls
\* getItem again
HandleClient(w) ==
    /\ proc = "running"
    /\ pc[w] = "handleClient"
    /\ \E calls \in AllRuns[root] :
          io' = [io EXCEPT ![shared_socket[w]] = @ \o calls]
    /\ handled' = handled \cup {shared_socket[w]}
    /\ shared_socket' = [shared_socket EXCEPT ![w] = 0]
    /\ pc' = [pc EXCEPT ![w] = "getItem"]
    /\ UNCHANGED <<proc, mainVars, m, bufVars, condVars, queueLogs, root>>

\* recv or send returns -1 in call n of handleClient: receiveData or sendData
\* throws std::system_error, which neither handleClient nor consume catches,
\* so it leaves the thread function and std::terminate ends the process
HandleClientThrows(w) ==
    /\ proc = "running"
    /\ pc[w] = "handleClient"
    /\ \E calls \in AllThrows[root] :
          io' = [io EXCEPT ![shared_socket[w]] = @ \o calls]
    /\ ProcessEnds("aborted", w, "terminate")
    /\ UNCHANGED <<spawned, sock, accepted, shared_socket, bufVars, queueLogs,
                   root, handled>>

Next ==
    \/ Spawn
    \/ Accept
    \/ AcceptFails
    \/ PutLock
    \/ PutWait
    \/ PutRelock
    \/ PutInsert
    \/ PutSpurious
    \/ \E w \in Workers : GetLock(w)
    \/ \E w \in Workers : GetWait(w)
    \/ \E w \in Workers : GetRelock(w)
    \/ \E w \in Workers : GetRemove(w)
    \/ \E w \in Workers : GetSpurious(w)
    \/ \E w \in Workers : HandleClient(w)
    \/ \E w \in Workers : HandleClientThrows(w)

Spec == Init /\ [][Next]_vars

(* ---------------------------------------------------------------------- *)
(* Scheduling.  Every thread that can take a step is eventually given the  *)
(* processor, a thread that asks for the mutex again and again is          *)
(* eventually granted it, and a handleClient call comes to an end, by      *)
(* returning or by throwing.  Whether clients connect, whether accept      *)
(* fails and whether a wait wakes up spuriously is left open.              *)
(* ---------------------------------------------------------------------- *)
Fairness ==
    /\ WF_vars(Spawn)
    /\ SF_vars(PutLock)
    /\ SF_vars(PutRelock)
    /\ WF_vars(PutWait)
    /\ WF_vars(PutInsert)
    /\ \A w \in Workers :
          /\ SF_vars(GetLock(w))
          /\ SF_vars(GetRelock(w))
          /\ WF_vars(GetWait(w))
          /\ WF_vars(GetRemove(w))
          /\ WF_vars(HandleClient(w) \/ HandleClientThrows(w))

FairSpec == Init /\ [][Next]_vars /\ Fairness

(* ---------------------------------------------------------------------- *)
(* handleClient on its own: consume's loop body applied to one connection  *)
(* after the other, with the queue and the other threads left out, for     *)
(* more requests and more ways of naming the served directory.             *)
(* ---------------------------------------------------------------------- *)
MaxServed == 2          \* connections handled in one such run

ClientRequests ==
    Requests \cup
    {<<>>,
     <<"G", "E", "T", " ", "/", "m", "i", "s", "s", "i", "n", "g", ".", "t",
       "x", "t", " ", "H", "T", "T", "P", "/", "1", ".", "1">>,
     <<"G", "E", "T", " ", "/", "s", "u", "b", "/", "b", ".", "c", "s", "s",
       " ", "H", "T", "T", "P", "/", "1", ".", "0">>,
     <<"G", "E", "T", " ", "/", "s", "u", "b", "/", " ", "H", "T", "T", "P",
       "/", "1", ".", "0">>,
     <<"G", "E", "T", " ", "/", "s", "u", "b", " ", "H", "T", "T", "P", "/",
       "1", ".", "0">>,
     <<"G", "E", "T", " ", "/", "w", "e", "b", "/", " ", "H", "T", "T", "P",
       "/", "1", ".", "0">>,
     <<"G", "E", "T", " ", "/", "w", "e", "b", " ", "H", "T", "T", "P", "/",
       "1", ".", "0">>,
     <<"G", "E", "T", " ", "/", "a", ".", "t", "x", "t", " ", "H", "T", "T",
       "P", "/", "1", ".", "0", "\r", "\n", "\r", "\n">>,
     <<"G", "E", "T", "\t", "/", "a", ".", "t", "x", "t", "\t", "H", "T",
       "T", "P", "/", "1", ".", "0">>,
     <<"X", " ", "G", "E", "T", " ", "/", "a", ".", "t", "x", "t", " ", "H",
       "T", "T", "P", "/", "1", ".", "0">>}
ServedRoots == {www, <<".", "/">> \o www}

\* every way one handleClient call may run to its return, per root
Answers ==
    [server_root \in ServedRoots |->
        UNION {{handleClient(r, server_root, o) :
                   o \in Iterations(server_root \o Tokenize(r))} :
               r \in ClientRequests}]

HandlerInit ==
    /\ proc = "running"
    /\ apc = "accept"
    /\ spawned = NUM_THREADS
    /\ sock = 0
    /\ accepted = 0
    /\ pc = [w \in Workers |-> "getItem"]
    /\ shared_socket = [w \in Workers |-> 0]
    /\ m = Unlocked
    /\ capacity \in 1..CAPACITY
    /\ count = 0
    /\ head = 0
    /\ tail = 0
    /\ buffer = <<>>
    /\ data_available = {}
    /\ space_available = {}
    /\ root \in ServedRoots
    /\ putLog = <<>>
    /\ takeLog = <<>>
    /\ io = [c \in Socks |-> <<>>]
    /\ handled = {}

\* handleClient(shared_socket, root) on the next connection, run to its return
Serve ==
    /\ Cardinality(handled) < MaxServed
    /\ Cardinality(handled) < MaxConns
    /\ \E calls \in Answers[root] :
          io' = [io EXCEPT ![Cardinality(handled) + 1] = calls]
    /\ handled' = handled \cup {Cardinality(handled) + 1}
    /\ accepted' = accepted + 1
    /\ UNCHANGED <<proc, apc, spawned, sock, pc, shared_socket, m, bufVars,
                   condVars, queueLogs, root>>

HandlerNext == Serve

HandlerSpec == HandlerInit /\ [][HandlerNext]_vars

(* ---------------------------------------------------------------------- *)
(* Properties                                                              *)
(* ---------------------------------------------------------------------- *)
\* how often h occurs in the sequence s
Occurrences(s, h) == Cardinality({i \in 1..Len(s) : s[i] = h})

\* the socket calls of kind op made on descriptor c
CallsOf(c, op) == {i \in 1..Len(io[c]) : io[c][i][1] = op}

\* close(c) has been called
Closed(c) == CallsOf(c, "close") # {}

\* a recv or send on c returned -1
Failed(c) == CallsOf(c, "fail") # {}

\* the bytes of the calls in log whose kind is op, in order
RECURSIVE BytesOf(_, _)
BytesOf(log, op) ==
    IF log = <<>> THEN <<>>
    ELSE (IF Head(log)[1] = op THEN Head(log)[2] ELSE <<>>)
         \o BytesOf(Tail(log), op)

\* the positions of a worker that is inside consume's loop
InLoop == {"getItem", "g_test", "g_wait", "g_wake", "g_retest", "handleClient"}

\* the parties that hold descriptor c: the accept thread in its local sock,
\* the queue, a worker in its local shared_socket
Holders(c) ==
    (IF sock = c THEN 1 ELSE 0) + Occurrences(buffer, c)
    + Cardinality({w \in Workers : shared_socket[w] = c})

\* C1: in every reachable state the queue's count is at least 0 and at most
\* the capacity the buffer was constructed with.
C1_CountWithinCapacity == 0 <= count /\ count <= capacity

\* C1 witness: the queue of the largest capacity is full and the accept
\* thread is blocked in putItem with one more connection.
C1_FullQueueProducerBlocked ==
    capacity = CAPACITY /\ count = capacity /\ apc = "p_wait" /\ sock # 0

\* C2: the handles getItem has returned are, in order, the first handles
\* putItem inserted, and those are the connections in the order accept
\* returned them: nothing is dequeued before something inserted earlier.
C2_Fifo ==
    /\ Len(takeLog) <= Len(putLog)
    /\ \A i \in 1..Len(takeLog) : takeLog[i] = putLog[i]
    /\ \A i \in 1..Len(putLog) : putLog[i] = i

\* C2 witness: two workers have each dequeued a connection and are handling
\* them at the same time, while a third connection has been inserted.
C2_TwoWorkersDequeued ==
    /\ Len(putLog) >= 3
    /\ \E v, w \in Workers :
          /\ v # w
          /\ pc[v] = "handleClient" /\ pc[w] = "handleClient"
          /\ shared_socket[v] = 2 /\ shared_socket[w] = 1

\* C3: every handle is inserted at most once, is returned by getItem at most
\* once, and what was inserted is what was returned plus what the queue still
\* holds; no two workers are handed the same handle.
C3_NoLossNoDuplication ==
    /\ \A h \in Socks :
          /\ Occurrences(putLog, h) =
                 Occurrences(takeLog, h) + Occurrences(buffer, h)
          /\ Occurrences(takeLog, h) <= 1
    /\ \A v, w \in Workers :
          (v # w /\ shared_socket[v] # 0) => shared_socket[v] # shared_socket[w]

\* C3 witness: every connection of the run was inserted, the queue has been
\* drained and each handle was returned once.
C3_Drained ==
    /\ Len(putLog) = MaxConns
    /\ buffer = <<>>
    /\ \A h \in Socks : Occurrences(takeLog, h) = 1

\* C4: every connection whose handleClient call has returned was closed in
\* that call, whatever the response.
C4_ClosedOnEveryPath == \A c \in handled : Closed(c)

\* C5: a failed recv or send on a connection does not leave the worker's
\* loop: the connection is closed, no worker has left consume and the process
\* still runs.
C5_FailureContained ==
    \A c \in Socks :
        Failed(c) =>
            /\ Closed(c)
            /\ proc = "running"
            /\ \A w \in Workers : pc[w] \in InLoop

\* C6: the threads that exist are the ones the loop has created so far, and
\* once it has created all NUM_THREADS of them every one of them stays in
\* consume's loop, unless accept itself fails and the server exits.
C6_PoolStaysComplete ==
    proc # "exited" =>
        /\ Cardinality({w \in Workers : pc[w] # "unborn"}) = spawned
        /\ (apc # "spawn" => \A w \in Workers : pc[w] \in InLoop)

\* C7: putItem inserts only while it holds the mutex and the count is below
\* the capacity, it returns to acceptConnections only in the step that
\* inserts its item, and so with capacity 1 a second insertion follows the
\* removal of the first item.
C7_PutBlocksWhileFull ==
    [][/\ putLog' # putLog =>
             /\ m = Main /\ count < capacity
             /\ putLog' = Append(putLog, sock) /\ buffer' = Append(buffer, sock)
             /\ (capacity = 1 => Len(takeLog) = Len(putLog))
       /\ (apc \in {"putItem", "p_test", "p_wait", "p_wake", "p_retest"}
           /\ apc' = "accept") => putLog' # putLog]_vars

\* C7 witness: with capacity 1 the accept thread waits in putItem with a
\* second connection while the first is still in the queue.
C7_SecondPutWaits ==
    capacity = 1 /\ count = 1 /\ apc = "p_wait" /\ sock = 2 /\ buffer = <<1>>

\* C8: getItem returns an item only while it holds the mutex and the queue is
\* not empty, and what it returns is the oldest item, which it removes.
C8_GetBlocksWhileEmpty ==
    [][takeLog' # takeLog =>
          /\ m \in Workers /\ count > 0 /\ buffer # <<>>
          /\ takeLog' = Append(takeLog, Head(buffer))
          /\ buffer' = Tail(buffer)]_vars

\* C8 witness: a worker woken out of data_available.wait holds the mutex
\* again and finds the queue empty, after another worker took the item.
C8_WokenFindsQueueEmpty ==
    \E w \in Workers :
        pc[w] = "g_retest" /\ m = w /\ count = 0 /\ Len(takeLog) >= 1

\* C9: nobody but one party holds a handle, a connection that has been
\* accepted and on which no call was made yet is held by exactly one, calls
\* are made on a handle only once getItem has returned it, and close is the
\* last call made on it.
C9_SingleOwnerNoUseAfterClose ==
    \A c \in Socks :
        /\ Holders(c) <= 1
        /\ (c <= accepted /\ io[c] = <<>>) => Holders(c) = 1
        /\ io[c] # <<>> => Occurrences(takeLog, c) = 1
        /\ \A i \in CallsOf(c, "close") : i = Len(io[c])

\* C9 witness: one connection has been closed while a second is being
\* handled by a worker and a third waits in the queue.
C9_ClosedHeldAndQueued ==
    /\ Closed(1)
    /\ \E w \in Workers : pc[w] = "handleClient" /\ shared_socket[w] = 2
    /\ buffer = <<3>>

\* the values the Content-Type header takes
ContentTypes ==
    {<<"t", "e", "x", "t", "/", "h", "t", "m", "l">>, <<"t", "e", "x", "t",
       "/", "c", "s", "s">>, <<"i", "m", "a", "g", "e", "/", "j", "p", "e",
       "g">>, <<"i", "m", "a", "g", "e", "/", "g", "i", "f">>,
     <<"i", "m", "a", "g", "e", "/", "p", "n", "g">>, <<"a", "p", "p", "l",
       "i", "c", "a", "t", "i", "o", "n", "/", "p", "d", "f">>, <<"t", "e",
       "x", "t", "/", "p", "l", "a", "i", "n">>}

\* C10: when the request is valid and resolves to a regular file, the bytes
\* sent are the status line, Content-Type, Content-Length with the file's
\* size, a blank line, the file's bytes and the terminator.
C10_FileResponseHasHeader ==
    \A c \in handled :
        LET request == io[c][1][2]
            filename == root \o Tokenize(request)
        IN  (validGET(request) /\ is_regular_file(filename)) =>
                \E type \in ContentTypes :
                    BytesOf(io[c], "send") =
                        <<"H", "T", "T", "P", "/", "1", ".", "0", " ", "2",
       "0", "0", " ", "O", "K", "\r", "\n">>
                        \o <<"C", "o", "n", "t", "e", "n", "t", "-", "T",
       "y", "p", "e", ":", " ">> \o type \o <<"\r", "\n">>
                        \o <<"C", "o", "n", "t", "e", "n", "t", "-", "L",
       "e", "n", "g", "t", "h", ":", " ">>
                        \o to_string(Len(Contents(Lookup(filename))))
                        \o <<"\r", "\n">> \o <<"\r", "\n">>
                        \o Contents(Lookup(filename)) \o <<"\r", "\n">>

(* ---------------------------------------------------------------------- *)
(* Properties of the responses                                             *)
(* ---------------------------------------------------------------------- *)
\* the position of the first occurrence of pat in s, 0 when there is none
IndexOf(s, pat) ==
    LET hits == {i \in 1..(Len(s) - Len(pat) + 1) :
                    SubSeq(s, i, i + Len(pat) - 1) = pat}
    IN  IF hits = {} THEN 0 ELSE Min(hits)

Contains(s, pat) == IndexOf(s, pat) # 0

\* the number a string of decimal digits denotes
RECURSIVE Decimal(_)
Decimal(digits) ==
    IF digits = <<>> THEN 0
    ELSE Decimal(SubSeq(digits, 1, Len(digits) - 1)) * 10
         + (CHOOSE d \in 0..9 : DigitChars[d + 1] = digits[Len(digits)])

\* what the client sent on connection c, and all the bytes it was sent
Request(c) == io[c][1][2]
Response(c) == BytesOf(io[c], "send")

\* the node of the file system the request on connection c resolves to
Resolved(c) == Lookup(root \o Tokenize(Request(c)))

\* the value of the Content-Length header of a response that has one
DeclaredLength(s) ==
    LET rest == SubSeq(s, IndexOf(s, <<"C", "o", "n", "t", "e", "n", "t",
          "-", "L", "e", "n", "g", "t", "h", ":", " ">>) + 16, Len(s))
    IN  Decimal(SubSeq(rest, 1, IndexOf(rest, CRLF) - 1))

\* the bytes of a response that follow its first blank line
Body(s) == SubSeq(s, IndexOf(s, CRLF \o CRLF) + 4, Len(s))

\* C11: in every response that has a Content-Length header there is a blank
\* line, and the bytes after it are as many as the header says, followed by
\* the two bytes of the terminator.
C11_ContentLengthIsBodyLength ==
    \A c \in handled :
        Contains(Response(c), <<"C", "o", "n", "t", "e", "n", "t", "-", "L",
              "e", "n", "g", "t", "h", ":", " ">>) =>
            /\ Contains(Response(c), CRLF \o CRLF)
            /\ Len(Body(Response(c))) = DeclaredLength(Response(c)) + 2
            /\ SubSeq(Body(Response(c)), DeclaredLength(Response(c)) + 1,
                      Len(Body(Response(c)))) = CRLF

\* C11 witness: one connection got a directory listing with two entries and
\* another the 404 page, both with a Content-Length of more than two digits.
C11_ListingAndErrorPageSent ==
    \E c, d \in handled :
        /\ Contains(Response(c), <<"<", "l", "i", ">">>)
        /\ DeclaredLength(Response(c)) = 145
        /\ Contains(Response(d), <<"4", "0", "4", " ", "N", "O", "T", " ",
              "F", "O", "U", "N", "D">>)
        /\ DeclaredLength(Response(d)) = 104

\* the hyperlink sendHTML is to write for a directory entry
Hyperlink(name, isDir) ==
    LET shown == IF isDir THEN name \o <<"/">> ELSE name
    IN  <<"<", "a", " ", "h", "r", "e", "f", "=", "\"">> \o shown \o <<"\"",
          ">">> \o shown \o <<"<", "/", "a", ">">>

\* C12: when the request resolves to a directory that has no index.html, the
\* response holds a hyperlink for every entry of the directory, with a
\* trailing slash for the entries that are directories.
C12_ListingNamesEveryEntry ==
    \A c \in handled :
        (/\ validGET(Request(c))
         /\ Resolved(c) \in Directories
         /\ index_html \notin Entries(Resolved(c))) =>
            \A e \in Entries(Resolved(c)) :
                Contains(Response(c),
                    Hyperlink(e, Append(Resolved(c), e) \in Directories))

\* the extension of a file name: its last '.' and what follows, <<>> if none
FileExtension(name) ==
    LET dots == {i \in 1..Len(name) : name[i] = "."}
    IN  IF dots = {} THEN <<>>
        ELSE SubSeq(name, CHOOSE i \in dots : \A k \in dots : k <= i,
                    Len(name))

\* C13: the response to a request that resolves to a regular file begins
\* with the status line and a Content-Type header whose value is the one the
\* table gives for the extension of the file's name.
C13_TypeFollowsFileExtension ==
    \A c \in handled :
        (validGET(Request(c)) /\ Resolved(c) \in RegularFiles) =>
            LET name == Resolved(c)[Len(Resolved(c))]
                start == <<"H", "T", "T", "P", "/", "1", ".", "0", " ", "2",
                      "0", "0", " ", "O", "K", "\r", "\n">>
                         \o <<"C", "o", "n", "t", "e", "n", "t", "-", "T",
                               "y", "p", "e", ":", " ">>
                         \o ContentType(FileExtension(name)) \o CRLF
            IN  /\ Len(Response(c)) >= Len(start)
                /\ SubSeq(Response(c), 1, Len(start)) = start

\* s is GET, a white space, the path p, a white space and HTTP/d.d
IsGetLine(s, p) ==
    /\ Len(s) = Len(p) + 13
    /\ SubSeq(s, 1, 3) = <<"G", "E", "T">>
    /\ IsSpace(s[4])
    /\ SubSeq(s, 5, Len(p) + 4) = p
    /\ \A k \in 1..Len(p) : IsPathChar(p[k])
    /\ IsSpace(s[Len(p) + 5])
    /\ SubSeq(s, Len(p) + 6, Len(p) + 10) = <<"H", "T", "T", "P", "/">>
    /\ IsDigit(s[Len(p) + 11])
    /\ s[Len(p) + 12] = "."
    /\ IsDigit(s[Len(p) + 13])

\* where the substrings GET <path> HTTP/<digit>.<digit> of a request lie: the
\* first and last position of each <path> (first = last + 1 for an empty one)
GetMatches(request) ==
    {ab \in (1..(Len(request) + 1)) \X (0..Len(request)) :
        /\ ab[1] >= 5
        /\ ab[2] >= ab[1] - 1
        /\ ab[2] + 9 <= Len(request)
        /\ IsGetLine(SubSeq(request, ab[1] - 4, ab[2] + 9),
                     SubSeq(request, ab[1], ab[2]))}

\* C14: a request that holds no such substring is answered with the 400
\* status line and nothing else: one recv and one send are the only calls
\* made on the connection.
C14_BadRequestGetsOnlyStatusLine ==
    \A c \in handled :
        GetMatches(Request(c)) = {} =>
            io[c] = <<<<"recv", Request(c)>>,
                      <<"send", <<"H", "T", "T", "P", "/", "1", ".", "0",
                            " ", "4", "0", "0", " ", "B", "A", "D", " ", "R",
                            "E", "Q", "U", "E", "S", "T", "\r", "\n">>>>>>

\* C14 witness: an empty read and a POST request have both been answered.
C14_EmptyAndPostAnswered ==
    \E c, d \in handled :
        /\ Request(c) = <<>>
        /\ Request(d) = <<"P", "O", "S", "T", " ", "/", " ", "H", "T", "T",
              "P", "/", "1", ".", "0">>
        /\ Len(io[c]) = 2 /\ Len(io[d]) = 2

\* C15: when the request resolves to a directory that has an entry
\* index.html, what follows the 200 status line is the header block with
\* the size of that file, the file's bytes and the terminator, and nothing
\* of a listing.
C15_IndexServedAsFile ==
    \A c \in handled :
        (/\ validGET(Request(c))
         /\ Resolved(c) \in Directories
         /\ index_html \in Entries(Resolved(c))) =>
            LET bytes == Contents(Append(Resolved(c), index_html))
            IN  /\ \E type \in ContentTypes :
                      Response(c) =
                          <<"H", "T", "T", "P", "/", "1", ".", "0", " ", "2",
                                "0", "0", " ", "O", "K", "\r", "\n">>
                          \o <<"C", "o", "n", "t", "e", "n", "t", "-", "T",
                                "y", "p", "e", ":", " ">> \o type \o CRLF
                          \o <<"C", "o", "n", "t", "e", "n", "t", "-", "L",
                                "e", "n", "g", "t", "h", ":", " ">>
                          \o to_string(Len(bytes)) \o CRLF \o CRLF
                          \o bytes \o CRLF
                /\ ~Contains(Response(c), <<"<", "u", "l", ">">>)

\* C15 witness: a directory that holds index.html and another file has been
\* requested and answered, and the directory yields its entries in more
\* than one order.
C15_DirectoryWithIndexAnswered ==
    \E c \in handled :
        /\ Request(c) = <<"G", "E", "T", " ", "/", "w", "e", "b", "/", " ",
              "H", "T", "T", "P", "/", "1", ".", "0">>
        /\ Resolved(c) \in Directories
        /\ index_html \in Entries(Resolved(c))
        /\ Cardinality(directory_iterator(root \o Tokenize(Request(c)))) > 1
        /\ Closed(c)

\* the status lines
StatusLines ==
    {<<"H", "T", "T", "P", "/", "1", ".", "0", " ", "4", "0", "0", " ", "B",
          "A", "D", " ", "R", "E", "Q", "U", "E", "S", "T", "\r", "\n">>,
          <<"H", "T", "T", "P", "/", "1", ".", "0", " ", "4", "0", "4", " ",
          "N", "O", "T", " ", "F", "O", "U", "N", "D", "\r", "\n">>,
     <<"H", "T", "T", "P", "/", "1", ".", "0", " ", "2", "0", "0", " ", "O",
           "K", "\r", "\n">>}

\* C16: on every connection the first call is a recv and the only one, the
\* second call sends a status line and no later call sends one, and that
\* line is 400 when the request holds no GET <path> HTTP/d.d, else 404 when
\* root + path names neither a regular file nor a directory, else 200.
C16_OneReadThenOneStatusLine ==
    \A c \in handled :
        /\ CallsOf(c, "recv") = {1}
        /\ Len(io[c]) >= 2
        /\ io[c][2][1] = "send"
        /\ {i \in CallsOf(c, "send") : io[c][i][2] \in StatusLines} = {2}
        /\ io[c][2][2] =
              IF GetMatches(Request(c)) = {}
              THEN <<"H", "T", "T", "P", "/", "1", ".", "0", " ", "4", "0",
                    "0", " ", "B", "A", "D", " ", "R", "E", "Q", "U", "E",
                    "S", "T", "\r", "\n">>
              ELSE IF Resolved(c) \notin RegularFiles \cup Directories
              THEN <<"H", "T", "T", "P", "/", "1", ".", "0", " ", "4", "0",
                    "4", " ", "N", "O", "T", " ", "F", "O", "U", "N", "D",
                    "\r", "\n">>
              ELSE <<"H", "T", "T", "P", "/", "1", ".", "0", " ", "2", "0",
                    "0", " ", "O", "K", "\r", "\n">>

\* C16 witness: one connection was answered 404 and another 200.
C16_NotFoundAndOkAnswered ==
    \E c, d \in handled :
        /\ Request(c) = <<"G", "E", "T", " ", "/", "m", "i", "s", "s", "i",
              "n", "g", ".", "t", "x", "t", " ", "H", "T", "T", "P", "/",
              "1", ".", "1">>
        /\ io[c][2][2] = <<"H", "T", "T", "P", "/", "1", ".", "0", " ", "4",
              "0", "4", " ", "N", "O", "T", " ", "F", "O", "U", "N", "D",
              "\r", "\n">>
        /\ Request(d) = <<"G", "E", "T", " ", "/", "s", "u", "b", "/", "b",
              ".", "c", "s", "s", " ", "H", "T", "T", "P", "/", "1", ".",
              "0">>
        /\ io[d][2][2] = <<"H", "T", "T", "P", "/", "1", ".", "0", " ", "2",
              "0", "0", " ", "O", "K", "\r", "\n">>

\* C17: for a request that passes validation, the path handleClient appends
\* to the root is the <path> of the first GET <path> HTTP/d.d in the request.
C17_ResolvedPathIsMatchedPath ==
    \A c \in handled :
        validGET(Request(c)) =>
            \E ab \in GetMatches(Request(c)) :
                /\ \A other \in GetMatches(Request(c)) : ab[1] <= other[1]
                /\ Tokenize(Request(c)) = SubSeq(Request(c), ab[1], ab[2])

(* ---------------------------------------------------------------------- *)
(* Properties of the running server                                        *)
(* ---------------------------------------------------------------------- *)
\* the handles a log holds
Handles(log) == {log[i] : i \in 1..Len(log)}

\* the accept thread is inside putItem, blocked or on its way out of wait
InPutWait == apc \in {"p_wait", "p_wake", "p_retest"}

C19_NoDeadlockProducerReleased ==
    /\ [](~(apc = "p_wait" /\ \A w \in Workers : pc[w] = "g_wait"))
    /\ (InPutWait /\ count < capacity) ~> (apc = "accept")

\* the connections accepted whose handleClient call has not returned
Unfinished == accepted - Cardinality(handled)

\* the workers that hold a connection: inside handleClient
InHandleClient == {w \in Workers : shared_socket[w] # 0}

\* C20: the connections accepted and not yet handled are the ones in the
\* queue, at most capacity, the ones workers hold, at most NUM_THREADS, and
\* the one the accept thread is putting, so at most capacity + NUM_THREADS
\* + 1.
C20_BackpressureBound ==
    /\ Cardinality(InHandleClient) <= NUM_THREADS
    /\ Len(buffer) <= capacity
    /\ Unfinished = Len(buffer) + Cardinality(InHandleClient)
                    + (IF sock # 0 THEN 1 ELSE 0)
    /\ Unfinished <= capacity + NUM_THREADS + 1

\* C20 witness: every worker is inside handleClient, the queue is full and
\* the accept thread is blocked in putItem with one more connection.
C20_EveryPlaceTaken ==
    /\ \A w \in Workers : pc[w] = "handleClient"
    /\ Len(buffer) = capacity
    /\ apc = "p_wait"
    /\ Unfinished = capacity + NUM_THREADS + 1

\* C21: head and tail stay within 0..capacity-1, count is the number of
\* items the underlying queue holds, and head is count steps ahead of tail
\* around the ring: (head - tail) mod capacity = count mod capacity.
C21_RingIndices ==
    /\ 0 <= head /\ head < capacity
    /\ 0 <= tail /\ tail < capacity
    /\ count = Len(buffer)
    /\ (head - tail) % capacity = count % capacity
    /\ head = Len(putLog) % capacity
    /\ tail = Len(takeLog) % capacity

\* C21 witness: in a queue of the largest capacity head has wrapped to 0
\* and lies behind tail, with an item still queued.
C21_HeadWrappedBehindTail ==
    /\ capacity = CAPACITY
    /\ Len(putLog) = capacity
    /\ head = 0
    /\ tail = 1
    /\ count = capacity - 1

====
